---- MODULE Spec2Model ----
(***************************************************************************)
(* Warehouse simulation of src/2.py: robots (RobotAgent) pick boxes (Box)  *)
(* from a toroidal MultiGrid and stack them on pallets (Pallet).  The      *)
(* module-level driver constructs a WarehouseModel and calls model.step()  *)
(* while the boxes are not all stacked and the step budget is not used up. *)
(*                                                                         *)
(* One behaviour of the model is one run of the driver.  The random draws  *)
(* of the program (placements, activation order, neighbour choice) are     *)
(* existential choices.  A step of the scheduler is unfolded into one      *)
(* transition per agent activation, so that the claims about a single      *)
(* activation can be stated.                                               *)
(***************************************************************************)
EXTENDS Integers, Sequences, FiniteSets, TLC

\* ---------------------------------------------------------------- bounds
\* Largest number of agents (boxes + pallets + robots) of a configuration
\* whose placements are all explored.
MaxAgents == 4
\* Step budget of the driver in those configurations.
MaxSteps == 3
\* Largest number of agents of the configurations FairSpec explores.
MaxFairAgents == 3
\* Largest number of agents of the configurations WideSpec explores.
MaxWideAgents == 3

\* ------------------------------------------------------ program constants
\* The literal all_boxes_stacked compares the stacked total with.
StackTarget == 20
\* The driver's max_steps.
DriverBudget == 100

VARIABLES
    pc,              \* position of the driver script
    width, height,   \* grid dimensions given to WarehouseModel
    num_boxes, num_robots, num_pallets,   \* counts given to WarehouseModel
    pos,             \* agent id -> cell, or None once removed from the grid
    stack_count,     \* pallet id -> boxes stacked on it
    carrying_box,    \* robot id -> BOOLEAN
    movements,       \* robot id -> moves made
    model_movements, \* WarehouseModel.movements, the per-tick history
    pending,         \* agents the running schedule.step() has yet to activate
    steps,           \* the driver's step counter
    max_steps,       \* the driver's step budget
    activations      \* agent id -> number of calls of its step() so far

vars == <<pc, width, height, num_boxes, num_robots, num_pallets, pos,
          stack_count, carrying_box, movements, model_movements, pending,
          steps, max_steps, activations>>

config == <<width, height, num_boxes, num_robots, num_pallets, max_steps>>

\* agent.pos of an agent that grid.remove_agent has taken off the grid
None == <<>>

\* ------------------------------------------------------------ agent kinds
\* unique_id ranges handed out by WarehouseModel.__init__
Boxes == 0 .. (num_boxes - 1)
Pallets == num_boxes .. (num_boxes + num_pallets - 1)
Robots == (num_boxes + num_pallets) .. (num_boxes + num_pallets + num_robots - 1)
Agents == Boxes \cup Pallets \cup Robots

Cells == (0 .. (width - 1)) \X (0 .. (height - 1))

RECURSIVE SumOver(_, _)
SumOver(f, S) ==
    IF S = {} THEN 0
    ELSE LET a == CHOOSE x \in S : TRUE IN f[a] + SumOver(f, S \ {a})

\* first element of a cell's content list among the agents of S: boxes and
\* pallets are appended to their cell in id order and never move
First(S) == CHOOSE a \in S : \A b \in S : a <= b

\* ------------------------------------------------------------------ grid
get_cell_list_contents(c) == {a \in Agents : pos[a] = c}

\* neighbourhood of a grid that does not wrap and does not clip
get_neighborhood_NoWrap(p) ==
    { <<p[1] + 1, p[2]>>, <<p[1] - 1, p[2]>>,
      <<p[1], p[2] + 1>>, <<p[1], p[2] - 1>> }

\* neighbourhood with moore=True: the diagonal cells too
get_neighborhood_Moore(p) ==
    { <<(p[1] + dx) % width, (p[2] + dy) % height>> :
        dx \in {1, width - 1, 0}, dy \in {1, height - 1, 0} } \ {p}

\* MultiGrid(width, height, torus=True).get_neighborhood(p, moore=False,
\* include_center=False)
get_neighborhood(p) ==
    { <<(p[1] + 1) % width, p[2]>>, <<(p[1] + width - 1) % width, p[2]>>,
      <<p[1], (p[2] + 1) % height>>, <<p[1], (p[2] + height - 1) % height>> }

\* ----------------------------------------------------------------- robot
is_box(r) == \E a \in get_cell_list_contents(pos[r]) : a \in Boxes
is_pallet(r) == \E a \in get_cell_list_contents(pos[r]) : a \in Pallets

\* move that takes the other robots of the cell along
move_AllOnCell(r) ==
    \E new_position \in get_neighborhood(pos[r]) :
        /\ pos' = [a \in DOMAIN pos |->
                      IF a \in Robots /\ pos[a] = pos[r] THEN new_position
                      ELSE pos[a]]
        /\ movements' = [movements EXCEPT ![r] = @ + 1]
        /\ UNCHANGED <<carrying_box, stack_count>>

\* move that counts the movement twice
move_CountsTwice(r) ==
    \E new_position \in get_neighborhood(pos[r]) :
        /\ pos' = [pos EXCEPT ![r] = new_position]
        /\ movements' = [movements EXCEPT ![r] = @ + 2]
        /\ UNCHANGED <<carrying_box, stack_count>>

\* move that forgets to count the movement
move_Uncounted(r) ==
    \E new_position \in get_neighborhood(pos[r]) :
        /\ pos' = [pos EXCEPT ![r] = new_position]
        /\ UNCHANGED <<movements, carrying_box, stack_count>>

move(r) ==
    \E new_position \in get_neighborhood(pos[r]) :
        /\ pos' = [pos EXCEPT ![r] = new_position]
        /\ movements' = [movements EXCEPT ![r] = @ + 1]
        /\ UNCHANGED <<carrying_box, stack_count>>

\* pick_box that leaves the picked box on the grid
pick_box_LeavesBox(r) ==
    LET boxes == get_cell_list_contents(pos[r]) \cap Boxes IN
    IF ~carrying_box[r] /\ boxes # {}
    THEN /\ carrying_box' = [carrying_box EXCEPT ![r] = TRUE]
         /\ UNCHANGED <<pos, movements, stack_count>>
    ELSE UNCHANGED <<pos, carrying_box, movements, stack_count>>

\* pick_box that takes every box of the cell off the grid
pick_box_TakesAll(r) ==
    LET boxes == get_cell_list_contents(pos[r]) \cap Boxes IN
    IF ~carrying_box[r] /\ boxes # {}
    THEN /\ carrying_box' = [carrying_box EXCEPT ![r] = TRUE]
         /\ pos' = [a \in DOMAIN pos |-> IF a \in boxes THEN None ELSE pos[a]]
         /\ UNCHANGED <<movements, stack_count>>
    ELSE UNCHANGED <<pos, carrying_box, movements, stack_count>>

pick_box(r) ==
    LET boxes == get_cell_list_contents(pos[r]) \cap Boxes IN
    IF ~carrying_box[r] /\ boxes # {}
    THEN /\ carrying_box' = [carrying_box EXCEPT ![r] = TRUE]
         /\ pos' = [pos EXCEPT ![First(boxes)] = None]
         /\ UNCHANGED <<movements, stack_count>>
    ELSE UNCHANGED <<pos, carrying_box, movements, stack_count>>

\* drop_box that counts the box on every pallet of the cell
drop_box_AllPallets(r) ==
    LET pallets == get_cell_list_contents(pos[r]) \cap Pallets IN
    IF carrying_box[r] /\ pallets # {}
    THEN /\ stack_count' = [p \in DOMAIN stack_count |->
                              IF p \in pallets THEN stack_count[p] + 1
                              ELSE stack_count[p]]
         /\ carrying_box' = [carrying_box EXCEPT ![r] = FALSE]
         /\ UNCHANGED <<pos, movements>>
    ELSE UNCHANGED <<pos, carrying_box, movements, stack_count>>

\* drop_box that leaves the robot carrying
drop_box_KeepsCarrying(r) ==
    LET pallets == get_cell_list_contents(pos[r]) \cap Pallets IN
    IF carrying_box[r] /\ pallets # {}
    THEN /\ stack_count' = [stack_count EXCEPT ![First(pallets)] = @ + 1]
         /\ UNCHANGED <<pos, movements, carrying_box>>
    ELSE UNCHANGED <<pos, carrying_box, movements, stack_count>>

drop_box(r) ==
    LET pallets == get_cell_list_contents(pos[r]) \cap Pallets IN
    IF carrying_box[r] /\ pallets # {}
    THEN /\ stack_count' = [stack_count EXCEPT ![First(pallets)] = @ + 1]
         /\ carrying_box' = [carrying_box EXCEPT ![r] = FALSE]
         /\ UNCHANGED <<pos, movements>>
    ELSE UNCHANGED <<pos, carrying_box, movements, stack_count>>

step(r) ==
    IF carrying_box[r] THEN drop_box(r)
    ELSE IF is_box(r) THEN pick_box(r)
    ELSE move(r)

\* ----------------------------------------------------------------- model
total_movements == SumOver(movements, Robots)
total_boxes == SumOver(stack_count, Pallets)

all_boxes_stacked == total_boxes = StackTarget

\* the draws of randrange in WarehouseModel.__init__: every agent is placed
\* on a cell of its own choice.  Configurations of more than MaxAgents agents
\* are explored from the placements that put all agents on one cell.
Placements ==
    IF Cardinality(Agents) <= MaxAgents
    THEN [Agents -> Cells]
    ELSE { [a \in Agents |-> c] : c \in Cells }

\* --------------------------------------------------------------- actions
\* WarehouseModel(width, height, num_boxes, num_robots, num_pallets)
Construct ==
    /\ pc = "new"
    /\ \E placement \in Placements : pos' = placement
    /\ stack_count' = [p \in Pallets |-> 0]
    /\ carrying_box' = [r \in Robots |-> FALSE]
    /\ movements' = [r \in Robots |-> 0]
    /\ activations' = [a \in Agents |-> 0]
    /\ model_movements' = <<>>
    /\ pending' = {}
    /\ steps' = 0
    /\ pc' = "while"
    /\ UNCHANGED config

\* loop test that lets one step too many through
DriverTest_OffByOne ==
    /\ pc = "while"
    /\ pc' = IF ~all_boxes_stacked /\ steps <= max_steps THEN "step" ELSE "done"
    /\ UNCHANGED <<config, pos, stack_count, carrying_box, movements,
                   model_movements, pending, steps, activations>>

\* loop test whose query clears the stacks it has summed
DriverTest_Clearing ==
    /\ pc = "while"
    /\ pc' = IF ~all_boxes_stacked /\ steps < max_steps THEN "step" ELSE "done"
    /\ stack_count' = [p \in Pallets |-> 0]
    /\ UNCHANGED <<config, pos, carrying_box, movements,
                   model_movements, pending, steps, activations>>

\* the test of the driver's while loop
DriverTest ==
    /\ pc = "while"
    /\ pc' = IF ~all_boxes_stacked /\ steps < max_steps THEN "step" ELSE "done"
    /\ UNCHANGED <<config, pos, stack_count, carrying_box, movements,
                   model_movements, pending, steps, activations>>

\* schedule.step() that leaves out the last robot
ScheduleStep_SkipsOne ==
    /\ pc = "step"
    /\ pending' = Agents \ {num_boxes + num_pallets + num_robots - 1}
    /\ pc' = "schedule"
    /\ UNCHANGED <<config, pos, stack_count, carrying_box, movements,
                   model_movements, steps, activations>>

\* the visualization server steps the model frame after frame without asking
\* all_boxes_stacked(); max_steps stands for the number of frames it serves
ServerTest ==
    /\ pc = "while"
    /\ pc' = IF steps < max_steps THEN "step" ELSE "done"
    /\ UNCHANGED <<config, pos, stack_count, carrying_box, movements,
                   model_movements, pending, steps, activations>>

\* model.step() enters schedule.step(): RandomActivation draws an order of
\* all scheduled agents; the order is chosen one agent at a time from pending
ScheduleStep ==
    /\ pc = "step"
    /\ pending' = Agents
    /\ pc' = "schedule"
    /\ UNCHANGED <<config, pos, stack_count, carrying_box, movements,
                   model_movements, steps, activations>>

\* the scheduler calls the next robot's step()
RobotStep(r) ==
    /\ pc = "schedule"
    /\ r \in pending \cap Robots
    /\ step(r)
    /\ pending' = pending \ {r}
    /\ activations' = [activations EXCEPT ![r] = @ + 1]
    /\ UNCHANGED <<pc, config, model_movements, steps>>

\* the scheduler calls a box's or pallet's step(), mesa.Agent.step, which
\* does nothing.  Boxes and pallets are taken in id order among themselves,
\* interleaved in any way with the robots.
InertStep ==
    /\ pc = "schedule"
    /\ pending \ Robots # {}
    /\ LET a == First(pending \ Robots) IN
        /\ pending' = pending \ {a}
        /\ activations' = [activations EXCEPT ![a] = @ + 1]
    /\ UNCHANGED <<pc, config, pos, stack_count, carrying_box, movements,
                   model_movements, steps>>

\* model.step() that records the movements of the tick, not the running total
StepEnd_Incremental ==
    /\ pc = "schedule"
    /\ pending = {}
    /\ model_movements' =
           Append(model_movements,
                  total_movements - (IF model_movements = <<>> THEN 0
                                     ELSE model_movements[Len(model_movements)]))
    /\ steps' = steps + 1
    /\ pc' = "while"
    /\ UNCHANGED <<config, pos, stack_count, carrying_box, movements,
                   pending, activations>>

\* schedule.step() has returned: the rest of model.step(), then steps += 1
StepEnd ==
    /\ pc = "schedule"
    /\ pending = {}
    /\ model_movements' = Append(model_movements, total_movements)
    /\ steps' = steps + 1
    /\ pc' = "while"
    /\ UNCHANGED <<config, pos, stack_count, carrying_box, movements,
                   pending, activations>>

\* grids explored, as <<width, height>>
GridShapes == { <<2, 2>> }

\* grid WideSpec explores: a width on which x + 1 and x - 1 differ
WideShapes == { <<3, 2>> }

\* configurations <<width, height, num_boxes, num_robots, num_pallets,
\* max_steps>>: every choice of at most k agents on a grid of shapes
ConfigsOn(shapes, k) ==
    { <<g[1], g[2], n[1], n[2], n[3], MaxSteps>> :
        g \in shapes,
        n \in { m \in (0 .. k) \X (0 .. k) \X (0 .. k) :
                  m[1] + m[2] + m[3] <= k } }

SmallConfigs(k) == ConfigsOn(GridShapes, k)
WideConfigs == ConfigsOn(WideShapes, MaxWideAgents)

\* configurations with as many boxes as the driver's own run (and one more),
\* under the driver's own step budget
StockedConfigs ==
    { <<g[1], g[2], b, r, 1, DriverBudget>> :
        g \in GridShapes, b \in {StackTarget, StackTarget + 1}, r \in {1, 2} }

Configs == SmallConfigs(MaxAgents) \cup StockedConfigs
FairConfigs == SmallConfigs(MaxFairAgents) \cup StockedConfigs

\* the script before WarehouseModel is constructed, for a configuration of cs
InitOf(cs) ==
    /\ pc = "new"
    /\ \E c \in cs :
        /\ width = c[1]
        /\ height = c[2]
        /\ num_boxes = c[3]
        /\ num_robots = c[4]
        /\ num_pallets = c[5]
        /\ max_steps = c[6]
    /\ pos = <<>>
    /\ stack_count = <<>>
    /\ carrying_box = <<>>
    /\ movements = <<>>
    /\ activations = <<>>
    /\ model_movements = <<>>
    /\ pending = {}
    /\ steps = 0

Init == InitOf(Configs)
FairInit == InitOf(FairConfigs)
WideInit == InitOf(WideConfigs)

Next ==
    \/ Construct
    \/ DriverTest
    \/ ScheduleStep
    \/ \E r \in Robots : RobotStep(r)
    \/ InertStep
    \/ StepEnd

Spec == Init /\ [][Next]_vars

\* the model stepped by the visualization server
ServerInit == InitOf(StockedConfigs)

ServerNext ==
    \/ Construct
    \/ ServerTest
    \/ ScheduleStep
    \/ \E r \in Robots : RobotStep(r)
    \/ InertStep
    \/ StepEnd

ServerSpec == ServerInit /\ [][ServerNext]_vars

\* the driver's run on the wider grids
WideSpec == WideInit /\ [][Next]_vars

\* the driver never stalls: every statement of the script returns
FairSpec == FairInit /\ [][Next]_vars /\ WF_vars(Next)

TypeOK ==
    /\ pc \in {"new", "while", "step", "schedule", "done"}
    /\ steps \in 0 .. max_steps
    /\ pending \subseteq Agents

\* ------------------------------------------------------------ properties
\* this step is the scheduler's call of r.step()
Activated(r) == pc = "schedule" /\ r \in pending /\ pending' = pending \ {r}

\* the branch r.step() takes in the current state
DropBranch(r) == carrying_box[r]
PickBranch(r) == ~carrying_box[r] /\ is_box(r)
MoveBranch(r) == ~carrying_box[r] /\ ~is_box(r)

\* what an activation of r did
Dropped(r) == carrying_box[r] /\ ~carrying_box'[r] /\ total_boxes' = total_boxes + 1
Picked(r) ==
    /\ ~carrying_box[r] /\ carrying_box'[r]
    /\ \E b \in Boxes : pos[b] = pos[r] /\ pos'[b] = None
Moved(r) == pos'[r] \in get_neighborhood(pos[r]) /\ movements'[r] = movements[r] + 1

ExactlyOne(a, b, c) ==
    (a /\ ~b /\ ~c) \/ (~a /\ b /\ ~c) \/ (~a /\ ~b /\ c)

\* C1: the sum of stack_count over all pallets never decreases from one state
\* to the next and never exceeds the configured number of boxes.
C1_StackedTotalMonotoneBounded ==
    /\ [](pc # "new" => total_boxes <= num_boxes)
    /\ [][pc # "new" => total_boxes' >= total_boxes]_vars

\* a run that has delivered every box of a configuration with boxes
C1_Witness == pc = "done" /\ num_boxes > 0 /\ total_boxes = num_boxes

\* C2: every activation of a robot has the effect of exactly one of drop, pick
\* and move; a carrying robot on a cell without pallet moves to a neighbour
\* cell and its movement count goes up by one.
C2_ExactlyOneActionTakesEffect ==
    [][\A r \in Robots :
        Activated(r) =>
            /\ ExactlyOne(Dropped(r), Picked(r), Moved(r))
            /\ (carrying_box[r] /\ ~is_pallet(r)) => Moved(r)]_vars

\* C3: all_boxes_stacked() is true exactly when the stacked total equals the
\* number of boxes the simulation was constructed with.
C3_CompleteIffAllStacked ==
    pc # "new" => (all_boxes_stacked <=> total_boxes = num_boxes)

\* C4: a robot's movements never decreases; it goes up by exactly one in an
\* activation of that robot that takes the move branch and is unchanged by
\* every other step (its drop or pick, another agent's activation).
C4_MovementsCountMoves ==
    [][pc # "new" =>
        \A r \in Robots :
            /\ movements'[r] >= movements[r]
            /\ (Activated(r) /\ MoveBranch(r)) => movements'[r] = movements[r] + 1
            /\ ~(Activated(r) /\ MoveBranch(r)) => movements'[r] = movements[r]]_vars

\* a robot that has moved and has also been activated without moving, next
\* to a robot that has not moved
C4_Witness ==
    /\ pc # "new"
    /\ \E r, q \in Robots :
        /\ movements[r] >= 1 /\ activations[r] > movements[r]
        /\ movements[q] = 0 /\ activations[q] >= 1

\* C5: a simulation constructed with num_robots = 0 is rejected: no
\* simulation comes to exist for such a configuration.
C5_NoRobotsRejected == num_robots = 0 => pc = "new"

\* C6: the driver loop terminates; a tick is run only while the completion
\* predicate is false and steps < max_steps, steps never exceeds max_steps,
\* and when the loop has stopped the predicate holds or steps = max_steps.
C6_DriverTerminates ==
    /\ <>(pc = "done")
    /\ [](steps <= max_steps)
    /\ [](pc = "step" => ~all_boxes_stacked /\ steps < max_steps)
    /\ [](pc = "schedule" => steps < max_steps)
    /\ [](pc = "done" => all_boxes_stacked \/ steps = max_steps)

\* a run stopped by its budget with some, not all, boxes stacked
C6_Witness ==
    /\ pc = "done" /\ steps = max_steps /\ ~all_boxes_stacked
    /\ total_boxes > 0

\* C7: the movement history has one entry per tick run, the entry of a tick
\* is the sum of all robots' movements at the end of that tick, and the
\* series never decreases.
C7_HistoryPerTick ==
    pc # "new" =>
        /\ Len(model_movements) = steps
        /\ (pc # "schedule" /\ steps > 0) => model_movements[steps] = total_movements
        /\ \A i, j \in 1 .. Len(model_movements) :
              i <= j => model_movements[i] <= model_movements[j]

\* a finished run of three ticks whose recorded total has grown
C7_Witness ==
    /\ pc = "done" /\ Len(model_movements) >= 3
    /\ model_movements[1] < model_movements[3]
    /\ model_movements[1] > 0

\* C8: in a tick every scheduled agent, so every robot, is activated exactly
\* once: an agent has been activated once per finished tick, and once more
\* when the running tick has already taken it.
C8_ActivatedOncePerTick ==
    pc # "new" =>
        \A a \in Agents :
            activations[a] =
                steps + (IF pc = "schedule" /\ a \notin pending THEN 1 ELSE 0)

\* mid-tick in a later tick: one robot has acted, another has yet to
C8_Witness ==
    /\ pc = "schedule" /\ steps >= 1
    /\ \E r, q \in Robots : r \notin pending /\ q \in pending

\* C9: evaluating all_boxes_stacked() (the driver's loop test) changes no
\* part of the simulation state, and so the value of the predicate is the
\* same after the call as before it.
C9_QueryIsPure ==
    [][pc = "while" =>
        /\ UNCHANGED <<pos, stack_count, carrying_box, movements,
                       model_movements, pending, activations, steps>>
        /\ all_boxes_stacked' = all_boxes_stacked]_vars

\* the query has answered true after stacks were built
C9_Witness == pc = "done" /\ all_boxes_stacked /\ steps >= 1

\* C11: an activation of a carrying robot on a cell with a pallet adds exactly
\* 1 to the stack_count of exactly one pallet, a pallet of that cell, clears
\* the robot's carrying flag and leaves the robot's position and movements,
\* every other pallet and the boxes on the grid unchanged.
C11_DropEffectAndFrame ==
    [][\A r \in Robots :
        (Activated(r) /\ carrying_box[r] /\ is_pallet(r)) =>
            /\ Cardinality({ p \in Pallets : stack_count'[p] # stack_count[p] }) = 1
            /\ \A p \in Pallets :
                  stack_count'[p] # stack_count[p] =>
                      /\ pos[p] = pos[r]
                      /\ stack_count'[p] = stack_count[p] + 1
            /\ ~carrying_box'[r]
            /\ pos'[r] = pos[r]
            /\ movements'[r] = movements[r]
            /\ \A b \in Boxes : pos'[b] = pos[b]]_vars

\* a box has been dropped on a cell with two pallets: one counts it
C11_Witness ==
    /\ pc # "new"
    /\ \E p, q \in Pallets :
        /\ p # q /\ pos[p] = pos[q]
        /\ stack_count[p] = 1 /\ stack_count[q] = 0

\* C12: an activation of a non-carrying robot on a cell with a box takes
\* exactly one box, a box of that cell, off the grid and sets the carrying
\* flag, the robot staying where it is with its movements unchanged; no
\* activation both picks and moves; a carrying robot on a cell with a box and
\* a pallet drops and picks nothing.
C12_PickEffectAndPriority ==
    [][\A r \in Robots :
        Activated(r) =>
            /\ (~carrying_box[r] /\ is_box(r)) =>
                  /\ Cardinality({ b \in Boxes : pos'[b] # pos[b] }) = 1
                  /\ \A b \in Boxes :
                        pos'[b] # pos[b] => pos[b] = pos[r] /\ pos'[b] = None
                  /\ carrying_box'[r]
                  /\ pos'[r] = pos[r]
                  /\ movements'[r] = movements[r]
            /\ ~(Picked(r) /\ Moved(r))
            /\ (carrying_box[r] /\ is_box(r) /\ is_pallet(r)) =>
                  /\ Dropped(r)
                  /\ \A b \in Boxes : pos'[b] = pos[b]]_vars

\* a robot carries one box of a cell that still holds another
C12_Witness ==
    /\ pc # "new"
    /\ \E r \in Robots :
        /\ carrying_box[r] /\ is_box(r)
        /\ \E b \in Boxes : pos[b] = None

\* no box is left on the grid and no robot is carrying one
Delivered ==
    /\ \A b \in Boxes : pos[b] = None
    /\ \A r \in Robots : ~carrying_box[r]

\* some robot is carrying on a cell without pallet
Stranded == \E r \in Robots : carrying_box[r] /\ ~is_pallet(r)

\* a robot carrying on a cell without pallet stays there, carrying, whatever
\* happens next: step() only calls drop_box, which finds no pallet
StrandedForever ==
    [][pc # "new" =>
        \A r \in Robots :
            (carrying_box[r] /\ ~is_pallet(r)) =>
                /\ carrying_box'[r]
                /\ pos'[r] = pos[r]
                /\ \A p \in Pallets : pos'[p] # pos'[r]]_vars

\* C13: with at least one robot and one pallet the run comes to deliver every
\* box: when the driver has stopped, every box has been delivered, or the
\* budget ran out with delivery still possible (no robot stranded for good).
C13_EveryBoxDelivered ==
    (pc = "done" /\ num_robots >= 1 /\ num_pallets >= 1) =>
        (Delivered \/ ~Stranded)

\* boxes on the grid, and robots carrying one
boxes_on_grid == { b \in Boxes : pos[b] # None }
carriers == { r \in Robots : carrying_box[r] }

\* C14: before and after every activation, the boxes on the grid, the robots
\* carrying a box and the boxes stacked on pallets add up to the initial
\* number of boxes; so a box picked by one robot is not there for a second
\* robot of the same cell.
C14_BoxConservation ==
    pc # "new" =>
        Cardinality(boxes_on_grid) + Cardinality(carriers) + total_boxes
            = num_boxes

\* in the first tick a robot has picked the only box of its cell and another
\* robot of that cell has yet to be activated
C14_Witness ==
    /\ pc = "schedule" /\ steps = 0
    /\ \E r, q \in Robots :
        /\ r \notin pending /\ q \in pending
        /\ pos[r] = pos[q]
        /\ carrying_box[r] /\ ~carrying_box[q] /\ ~is_box(q)

\* C15: the activation of a box or a pallet changes nothing of the
\* simulation; a pallet is never removed from the grid and never changes
\* position; a box on the grid stays on its cell until it is removed, and
\* stays removed; the activation of a robot changes no other robot's
\* position, carrying flag or movements.
C15_InertAgentsAndFrame ==
    [][pc # "new" =>
        /\ (\E a \in Boxes \cup Pallets : Activated(a)) =>
              UNCHANGED <<pos, stack_count, carrying_box, movements,
                          model_movements, steps>>
        /\ \A p \in Pallets : pos[p] \in Cells /\ pos'[p] = pos[p]
        /\ \A b \in Boxes : pos'[b] = pos[b] \/ (pos[b] \in Cells /\ pos'[b] = None)
        /\ \A r, q \in Robots :
              (Activated(r) /\ q # r) =>
                  /\ pos'[q] = pos[q]
                  /\ carrying_box'[q] = carrying_box[q]
                  /\ movements'[q] = movements[q]]_vars

\* in a later tick a removed box and a pallet have been activated, one robot
\* has acted and another has yet to
C15_Witness ==
    /\ pc = "schedule" /\ steps >= 1
    /\ \E b \in Boxes : pos[b] = None /\ b \notin pending
    /\ \E p \in Pallets : p \notin pending
    /\ \E r, q \in Robots : r \notin pending /\ q \in pending /\ movements[r] >= 1

\* C16: every agent on the grid (box, pallet or robot) has coordinates with
\* 0 <= x < width and 0 <= y < height, from construction on and after every
\* move, the moves across a grid edge included.
C16_PositionsWithinGrid ==
    pc # "new" =>
        \A a \in Agents :
            pos[a] # None =>
                /\ 0 <= pos[a][1] /\ pos[a][1] < width
                /\ 0 <= pos[a][2] /\ pos[a][2] < height

\* a robot has moved in each of three ticks on a grid that still holds a
\* box, and holds a pallet
C16_Witness ==
    /\ pc = "done"
    /\ \E r \in Robots : movements[r] = 3
    /\ \E b \in Boxes : pos[b] # None
    /\ Pallets # {}

\* C17: a move takes the robot to an orthogonally adjacent cell, with
\* wraparound: one coordinate changes by +1 or -1 modulo the grid size in
\* that axis and the other stays; the robot never moves diagonally and, on a
\* grid at least 2 cells wide and high, never stays on its cell.
C17_MoveToOrthogonalNeighbour ==
    [][\A r \in Robots :
        (Activated(r) /\ MoveBranch(r)) =>
            LET x == pos[r][1]   y == pos[r][2]
                nx == pos'[r][1] ny == pos'[r][2]
            IN /\ \/ /\ ny = y
                     /\ nx = (x + 1) % width \/ (nx + 1) % width = x
                  \/ /\ nx = x
                     /\ ny = (y + 1) % height \/ (ny + 1) % height = y
               /\ nx \in 0 .. (width - 1) /\ ny \in 0 .. (height - 1)
               /\ (width >= 2 /\ height >= 2) =>
                     /\ pos'[r] # pos[r]
                     /\ (nx # x) # (ny # y)]_vars

\* on a grid three cells wide a robot has moved in every tick
C17_Witness ==
    /\ pc = "done" /\ width = 3
    /\ \E r \in Robots : movements[r] = steps /\ steps >= 3

\* C18: the completion predicate is stable: once all_boxes_stacked is true it
\* is true in every later state, whatever the configuration.
C18_CompletionStable ==
    [][(pc # "new" /\ all_boxes_stacked) => all_boxes_stacked']_vars

\* the latest entry of the movement history (0 before the first tick), and
\* the movements made since it was recorded
last_entry ==
    IF model_movements = <<>> THEN 0
    ELSE model_movements[Len(model_movements)]
tick_moves == total_movements - last_entry

\* C19: from one entry of the movement history to the next the aggregate
\* grows by the number of robots that took the move branch in that tick,
\* which is at least 0 and at most num_robots: within a tick an activation
\* that takes the move branch adds one to one robot's movements and no other
\* step changes any, the movements made since the latest entry never exceed
\* the number of robots activated so far, and the tick's entry is the latest
\* entry plus them.
C19_EntryGrowsByMovesOfTick ==
    /\ [](pc # "new" =>
            LET made == tick_moves IN
            /\ made >= 0
            /\ made <= (IF pc = "schedule"
                        THEN Cardinality(Robots \ pending) ELSE 0)
            /\ \A k \in 1 .. Len(model_movements) :
                  LET before == IF k = 1 THEN 0 ELSE model_movements[k - 1]
                  IN  model_movements[k] - before \in 0 .. num_robots)
    /\ [][pc = "schedule" =>
            IF pc' = "while"
            THEN /\ model_movements' =
                        Append(model_movements, last_entry + tick_moves)
                 /\ movements' = movements
            ELSE /\ model_movements' = model_movements
                 /\ IF \E r \in pending \cap Robots : Activated(r) /\ MoveBranch(r)
                    THEN \E r \in Robots :
                            movements' = [movements EXCEPT ![r] = @ + 1]
                    ELSE movements' = movements]_vars

\* two robots: both moved in the first tick, one of them in the second
C19_Witness ==
    /\ pc = "done" /\ num_robots = 2 /\ Len(model_movements) >= 2
    /\ model_movements[1] = 2 /\ model_movements[2] = 3

====
